---- MODULE Spec2Model ----
(***************************************************************************)
(* The marketplace indexer of crates/indexer: the pipeline of run_forever  *)
(* (worker tasks, results channel, reporting loop), the decoding of        *)
(* marketplace events, write-changes and payloads, the batch writer        *)
(* insert_to_db, and the startup sequence of run_forever.                  *)
(***************************************************************************)
EXTENDS Integers, Sequences, FiniteSets, TLC

\* ------------------------------------------------------------------ bounds
\* The ledger holds the versions 0 .. MaxVersion - 1.
MaxVersion == 6
\* config.batch_size: versions per fetched batch.
BatchSize == 2
\* config.processor_tasks: number of worker tasks.
ProcessorTasks == 2
\* The wall clock read by tick_now advances by 0 or ClockStep per reading.
ClockStep == 6000
\* The wall clock stops advancing at MaxClock.
MaxClock == 12000
\* The MovingAverage is ticked while it holds fewer than MaxSamples samples.
MaxSamples == 4
\* A transaction holds up to MaxChanges write-set changes.
MaxChanges == 3
\* A worker that never fails produces MaxResults results.
MaxResults == 102
\* config.emit_every: the progress line cadence.
EmitEvery == 3
\* The parameter cap of one insert statement (M of get_chunks).
MaxParams == 12
\* The natural keys are 0 .. MaxKey - 1.
MaxKey == 2
\* The most records one insert_to_db call of the writer runs is given.
MaxBatch == 2
\* The restart runs index the versions 0 .. LedgerLen - 1.
LedgerLen == 5
\* config.gap_lookback_versions
Lookback == 2
\* The longest argument list of an entry-function payload.
MaxArgs == 2
\* The longest list of values merge_values_vector is given on its own.
MaxMerge == 3
\* config.starting_version and the persisted cursor range over 0 .. MaxStart.
MaxStart == 3

\* -------------------------------------------------------- program constants
\* tokio::sync::mpsc::channel(100)
ChannelCapacity == 100
\* MovingAverage::new(10_000)
WindowMillis == 10000

VARIABLES
    fetcher_version,    \* the fetcher's next version to hand out
    wpc,                \* each worker task's position in its loop
    wbatch,             \* the batch a worker holds: <<start_version, end_version>>
    wres,               \* the (num_res, res) a worker is about to send
    channel,            \* results in flight on the mpsc channel
    closed,             \* the receiver has been dropped
    rpc,                \* the reporting loop's position
    versions_processed, \* run_forever's running total
    base,               \* run_forever's emit quotient
    ma,                 \* the MovingAverage: [values, sum]
    now,                \* the wall clock, in milliseconds
    received,           \* history: the results the reporting loop has received
    emitted,            \* history: the progress lines the reporting loop has logged
    completed,          \* batches whose processing returned Ok
    cursor,             \* persisted last_success_version, -1 when there is none
    store,              \* the marketplace tables: the rows of each record kind
    call,               \* the last insert_to_db call: its arguments and outcome
    ledger,             \* the restart run's ledger: the record kind of each version
    phase,              \* the restart run's position
    config,             \* the IndexerConfig run_forever was given
    processor_enum,     \* the variant Processor::from_string returned
    processor,          \* the processor run_forever instantiated
    fetcher_started,    \* transaction_fetcher.start() has been called
    chain_id_checked,   \* check_or_update_chain_id has returned Ok
    dec                 \* the last call of a decoding function and its outcome

pipeVars == <<fetcher_version, wpc, wbatch, wres, channel, closed, rpc,
              versions_processed, base, ma, now, received, emitted, completed, cursor>>

writerVars == <<store, call, ledger, phase>>

bootVars == <<config, processor_enum, processor, fetcher_started, chain_id_checked>>

vars == <<pipeVars, writerVars, bootVars, dec>>

Workers == 1 .. ProcessorTasks

NoBatch == <<-1, -1>>
NoResult == [num |-> 0, ok |-> TRUE, start |-> -1, end |-> -1]

Min(a, b) == IF a < b THEN a ELSE b
Max(a, b) == IF a > b THEN a ELSE b

\* ------------------------------------------------------------ MovingAverage
RECURSIVE Evict_at_window(_, _, _)
\* Faulty variant: a sample as old as the window is evicted as well.
Evict_at_window(values, sum, timestamp_millis) ==
    IF values = <<>> THEN [values |-> values, sum |-> sum]
    ELSE IF timestamp_millis - Head(values)[1] >= WindowMillis
         THEN Evict_at_window(Tail(values), sum - Head(values)[2], timestamp_millis)
         ELSE [values |-> values, sum |-> sum]

RECURSIVE Evict_keep_sum(_, _, _)
\* Faulty variant: an evicted sample's value stays in the sum.
Evict_keep_sum(values, sum, timestamp_millis) ==
    IF values = <<>> THEN [values |-> values, sum |-> sum]
    ELSE IF timestamp_millis - Head(values)[1] > WindowMillis
         THEN Evict_keep_sum(Tail(values), sum, timestamp_millis)
         ELSE [values |-> values, sum |-> sum]

RECURSIVE Evict(_, _, _)
\* The eviction loop of tick: pop the front while it is older than the window.
Evict(values, sum, timestamp_millis) ==
    IF values = <<>> THEN [values |-> values, sum |-> sum]
    ELSE IF timestamp_millis - Head(values)[1] > WindowMillis
         THEN Evict(Tail(values), sum - Head(values)[2], timestamp_millis)
         ELSE [values |-> values, sum |-> sum]

\* MovingAverage::tick, without the returned average.
tick(m, timestamp_millis, value) ==
    Evict(Append(m.values, <<timestamp_millis, value>>), m.sum + value, timestamp_millis)

\* MovingAverage::avg as the fraction num / den: 0 with fewer than two samples,
\* else sum over the time between the oldest and the newest sample. den = 0 is
\* the f64 division by a zero elapsed time (inf or NaN).
avg(m) ==
    IF Len(m.values) < 2 THEN [num |-> 0, den |-> 1]
    ELSE [num |-> m.sum,
          den |-> m.values[Len(m.values)][1] - m.values[1][1]]

\* ----------------------------------------------------------------- decoding
CollectionRegistrationEventTag ==
    "0x4bed2725cbd33afc34c556a86910456e28537ffb84df6537401c966dbaccf63b::events::CollectionRegistrationEvent"

\* The fields serde requires of a CollectionRegistrationEvent.
CollectionRegistrationEventFields ==
    {"creator", "collection_address", "collection_name", "timestamp", "event_counter"}

\* MarketplaceEvent::from_event: Ok(None) on an unknown tag, Ok(Some) when the
\* value decodes, and an error carrying the version otherwise.
MarketplaceEvent_from_event(data_type, data, txn_version) ==
    IF data_type = CollectionRegistrationEventTag
    THEN IF DOMAIN data = CollectionRegistrationEventFields
         THEN [tag |-> "Some", inner |-> data]
         ELSE [tag |-> "Err", version |-> txn_version]
    ELSE [tag |-> "None"]

\* MarketplaceCollection::from_event: unwraps the decode result, so a decode
\* error is a panic of the calling task.
MarketplaceCollection_from_event(event_type, event, txn_version) ==
    LET r == MarketplaceEvent_from_event(event_type, event.data, txn_version)
    IN  IF r.tag = "Err" THEN [tag |-> "Panic"]
        ELSE IF r.tag = "Some"
        THEN [tag |-> "Some",
              rec |-> [creator_address |-> r.inner.creator,
                       collection_address |-> r.inner.collection_address,
                       collection_name |-> r.inner.collection_name,
                       creation_timestamp |-> r.inner.timestamp]]
        ELSE [tag |-> "None"]

GoodRegistration ==
    [creator |-> "0xAA", collection_address |-> "0xCC", collection_name |-> "C1",
     timestamp |-> 0, event_counter |-> "1"]
MalformedRegistration == [creator |-> "0xAA"]

\* The events a transaction of the model may carry.
Events ==
    { [typ |-> t, data |-> d] :
        t \in {CollectionRegistrationEventTag, "0x1::coin::DepositEvent"},
        d \in {GoodRegistration, MalformedRegistration} }

\* The event loop of process_transactions over a batch (one event per
\* transaction): "panic" when some event's decode is unwrapped on an error.
process_transactions_events(txns, start_version, end_version) ==
    IF \E v \in start_version .. end_version :
          MarketplaceCollection_from_event(txns[v].typ, txns[v], v).tag = "Panic"
    THEN "panic"
    ELSE "decoded"

\* ------------------------------------------------------ progress (Tailer)
RECURSIVE Frontier(_, _)
\* The last version of the gap-free prefix of completed batches that starts at
\* `from`.
Frontier(done, from) ==
    IF \E b \in done : b[1] = from
    THEN Frontier(done, (CHOOSE b \in done : b[1] = from)[2] + 1)
    ELSE from - 1

\* Faulty variant: the cursor follows the highest completed version.
AdvanceCursor_max(cur, done) ==
    Max(cur, CHOOSE m \in {b[2] : b \in done} : \A b \in done : b[2] <= m)

\* The cursor after one more batch completed: never decreases, never passes a
\* gap.
AdvanceCursor(cur, done) == Max(cur, Frontier(done, 0))

\* ------------------------------------------------------------------ workers
\* The start of Tailer::process_next_batch: the fetcher hands out the next
\* consecutive batch.
FetchBatch(w) ==
    /\ wpc[w] = "fetch"
    /\ fetcher_version < MaxVersion
    /\ wbatch' = [wbatch EXCEPT ![w] =
                    <<fetcher_version, Min(fetcher_version + BatchSize, MaxVersion) - 1>>]
    /\ fetcher_version' = Min(fetcher_version + BatchSize, MaxVersion)
    /\ wpc' = [wpc EXCEPT ![w] = "processing"]
    /\ UNCHANGED <<wres, channel, closed, rpc, versions_processed, base, ma, now,
                   received, emitted, completed, cursor, writerVars,
                   bootVars, dec>>

\* The rest of process_next_batch: the processor runs on the batch.
ProcessBatch(w) ==
    /\ wpc[w] = "processing"
    /\ \E txns \in [wbatch[w][1] .. wbatch[w][2] -> Events], write \in {"Ok", "Err"} :
        LET s == wbatch[w][1]
            e == wbatch[w][2]
            decode == process_transactions_events(txns, s, e)
        IN  IF decode = "panic"
            THEN /\ wpc' = [wpc EXCEPT ![w] = "panicked_decode"]
                 /\ UNCHANGED <<wres, completed, cursor>>
            ELSE /\ wpc' = [wpc EXCEPT ![w] = "sending"]
                 /\ wres' = [wres EXCEPT ![w] =
                               [num |-> e - s + 1, ok |-> (write = "Ok"),
                                start |-> s, end |-> e]]
                 /\ IF write = "Ok"
                    THEN /\ completed' = completed \cup {wbatch[w]}
                         /\ cursor' = AdvanceCursor(cursor, completed \cup {wbatch[w]})
                    ELSE UNCHANGED <<completed, cursor>>
    /\ UNCHANGED <<fetcher_version, wbatch, channel, closed, rpc, versions_processed,
                   base, ma, now, received, emitted, writerVars,
                   bootVars, dec>>

\* Faulty variant: a result sent on a full channel is dropped and the worker
\* goes on.
SendResult_drop(w) ==
    /\ wpc[w] = "sending"
    /\ IF closed
       THEN /\ wpc' = [wpc EXCEPT ![w] = "panicked_send"]
            /\ UNCHANGED channel
       ELSE /\ channel' = IF Len(channel) < ChannelCapacity
                          THEN Append(channel, wres[w]) ELSE channel
            /\ wpc' = [wpc EXCEPT ![w] = "fetch"]
    /\ UNCHANGED <<fetcher_version, wbatch, wres, closed, rpc, versions_processed,
                   base, ma, now, received, emitted, completed, cursor, writerVars,
                   bootVars, dec>>

\* other_tx.send((num_res, res)).await.unwrap()
SendResult(w) ==
    /\ wpc[w] = "sending"
    /\ IF closed
       THEN /\ wpc' = [wpc EXCEPT ![w] = "panicked_send"]
            /\ UNCHANGED channel
       ELSE /\ Len(channel) < ChannelCapacity
            /\ channel' = Append(channel, wres[w])
            /\ wpc' = [wpc EXCEPT ![w] = "fetch"]
    /\ UNCHANGED <<fetcher_version, wbatch, wres, closed, rpc, versions_processed,
                   base, ma, now, received, emitted, completed, cursor, writerVars,
                   bootVars, dec>>

\* ----------------------------------------------------------- reporting loop
\* Faulty variant: the Err arm logs and goes on to the next result.
AfterResult_skip(result) == "recv"

\* The reporting loop's position after a result: the Err arm panics.
AfterResult(result) == IF result.ok THEN "recv" ELSE "panicked"

\* The Sender handles alive: tx, which run_forever holds for as long as its
\* loop runs, and the clone moved into each worker task that has not panicked.
senders ==
    (IF rpc = "recv" THEN 1 ELSE 0)
    + Cardinality({w \in Workers :
                     wpc[w] \notin {"unspawned", "panicked_decode", "panicked_send"}})

\* receiver.recv() yields None: the channel is empty and no Sender is alive.
recv_none == channel = <<>> /\ senders = 0

\* The emit check: base follows versions_processed / emit_every when emit_every
\* is not 0.
emit_base(b, processed) ==
    IF config.emit_every # 0 THEN processed \div config.emit_every ELSE b

\* Faulty variant: a progress line for every result once emit_every is not 0.
emits_each(b, processed) == config.emit_every # 0

\* The progress line is logged when emit_every is not 0 and base != new_base.
emits(b, processed) ==
    /\ config.emit_every # 0
    /\ b # processed \div config.emit_every

\* One iteration of the loop of run_forever.
ReceiveResult ==
    /\ rpc = "recv"
    /\ channel # <<>>
    /\ LET result == Head(channel)
       IN  /\ received' = Append(received, result)
           /\ rpc' = AfterResult(result)
           /\ IF AfterResult(result) = "panicked"
              THEN \* unwinding drops the receiver and what it holds
                   /\ closed' = TRUE
                   /\ channel' = <<>>
                   /\ UNCHANGED <<versions_processed, base, ma, now, emitted>>
              ELSE /\ channel' = Tail(channel)
                   /\ closed' = closed
                   /\ \E dt \in {0, ClockStep} :
                        /\ now + dt <= MaxClock
                        /\ now' = now + dt
                        /\ ma' = tick(ma, now + dt, result.num)
                   /\ versions_processed' = versions_processed + result.num
                   /\ base' = emit_base(base, versions_processed + result.num)
                   /\ emitted' =
                        IF emits(base, versions_processed + result.num)
                        THEN Append(emitted,
                                    [batch_start_version |-> result.start,
                                     batch_end_version |-> result.end,
                                     versions_processed |-> versions_processed + result.num])
                        ELSE emitted
    /\ UNCHANGED <<fetcher_version, wpc, wbatch, wres, completed, cursor, writerVars,
                   bootVars, dec>>

\* ------------------------------------------------------------ specification
Kinds == {"collections", "offers", "orders", "bids"}
EmptyStore == [k \in Kinds |-> {}]
NoCall == [ret |-> "None"]

\* The pipeline before run_forever has spawned its workers.
PipeInit ==
    /\ fetcher_version = 0
    /\ wpc = [w \in Workers |-> "fetch"]
    /\ wbatch = [w \in Workers |-> NoBatch]
    /\ wres = [w \in Workers |-> NoResult]
    /\ channel = <<>>
    /\ closed = FALSE
    /\ rpc = "recv"
    /\ versions_processed = 0
    /\ base = 0
    /\ ma = [values |-> <<>>, sum |-> 0]
    /\ now = 0
    /\ received = <<>>
    /\ emitted = <<>>
    /\ completed = {}
    /\ cursor = -1

NoConfig ==
    [processor |-> "", check_chain_id |-> FALSE, starting_version |-> -1,
     emit_every |-> EmitEvery]
NoDec == [op |-> "none"]

\* run_forever is past its startup and no decoding function is under call.
Started ==
    /\ config = NoConfig
    /\ processor_enum = "None"
    /\ processor = "MarketplaceProcessor"
    /\ fetcher_started = TRUE
    /\ chain_id_checked = FALSE
    /\ dec = NoDec

Init ==
    /\ PipeInit
    /\ Started
    /\ store = EmptyStore
    /\ call = NoCall
    /\ ledger = <<>>
    /\ phase = "pipeline"

Next ==
    \/ \E w \in Workers : FetchBatch(w)
    \/ \E w \in Workers : ProcessBatch(w)
    \/ \E w \in Workers : SendResult(w)
    \/ ReceiveResult

Spec == Init /\ [][Next]_vars

\* The values of the emit_every setting a run is started with.
EmitEveryValues == {0, 1, EmitEvery}

\* The pipeline started under each emit_every setting.
EmitInit ==
    /\ PipeInit
    /\ config \in {[NoConfig EXCEPT !.emit_every = e] : e \in EmitEveryValues}
    /\ processor_enum = "None"
    /\ processor = "MarketplaceProcessor"
    /\ fetcher_started = TRUE
    /\ chain_id_checked = FALSE
    /\ dec = NoDec
    /\ store = EmptyStore
    /\ call = NoCall
    /\ ledger = <<>>
    /\ phase = "pipeline"

EmitSpec == EmitInit /\ [][Next]_vars

\* ------------------------------------------- a worker ahead of the reporter
\* Tailer::process_next_batch on a batch of one version that is processed and
\* written without a failure.
ProcessNextBatchOk(w) ==
    /\ phase = "backpressure"
    /\ wpc[w] = "fetch"
    /\ fetcher_version < MaxResults
    /\ wbatch' = [wbatch EXCEPT ![w] = <<fetcher_version, fetcher_version>>]
    /\ fetcher_version' = fetcher_version + 1
    /\ wres' = [wres EXCEPT ![w] =
                  [num |-> 1, ok |-> TRUE, start |-> fetcher_version,
                   end |-> fetcher_version]]
    /\ completed' = completed \cup {<<fetcher_version, fetcher_version>>}
    /\ cursor' = AdvanceCursor(cursor,
                               completed \cup {<<fetcher_version, fetcher_version>>})
    /\ wpc' = [wpc EXCEPT ![w] = "sending"]
    /\ UNCHANGED <<channel, closed, rpc, versions_processed, base, ma, now,
                   received, emitted, writerVars, bootVars, dec>>

\* run_forever with processor_tasks = 1, its clock at MaxClock.
BackpressureInit ==
    /\ fetcher_version = 0
    /\ wpc = [w \in Workers |-> IF w = 1 THEN "fetch" ELSE "unspawned"]
    /\ wbatch = [w \in Workers |-> NoBatch]
    /\ wres = [w \in Workers |-> NoResult]
    /\ channel = <<>>
    /\ closed = FALSE
    /\ rpc = "recv"
    /\ versions_processed = 0
    /\ base = 0
    /\ ma = [values |-> <<>>, sum |-> 0]
    /\ now = MaxClock
    /\ received = <<>>
    /\ emitted = <<>>
    /\ completed = {}
    /\ cursor = -1
    /\ Started
    /\ store = EmptyStore
    /\ call = NoCall
    /\ ledger = <<>>
    /\ phase = "backpressure"

BackpressureNext ==
    \/ \E w \in Workers : ProcessNextBatchOk(w)
    \/ \E w \in Workers : SendResult(w)
    \/ ReceiveResult

BackpressureSpec == BackpressureInit /\ [][BackpressureNext]_vars

\* ------------------------------------------------- MovingAverage on its own
\* The time between two ticks, and the values ticked.
TickSteps == {0, 5000, 7000}
TickValues == {3, 5}

\* One call of tick on the MovingAverage, with a timestamp not below the last
\* one; dec records the call, the object before it and the average it returned.
Tick ==
    /\ phase = "window"
    /\ Len(ma.values) < MaxSamples
    /\ \E dt \in TickSteps, value \in TickValues :
        /\ now + dt <= MaxClock
        /\ now' = now + dt
        /\ ma' = tick(ma, now + dt, value)
        /\ dec' = [op |-> "tick", timestamp_millis |-> now + dt, value |-> value,
                   before |-> ma, out |-> avg(tick(ma, now + dt, value))]
    /\ UNCHANGED <<fetcher_version, wpc, wbatch, wres, channel, closed, rpc,
                   versions_processed, base, received, emitted, completed, cursor,
                   writerVars, bootVars>>

\* MovingAverage::new(10_000), not yet ticked.
WindowInit ==
    /\ PipeInit
    /\ Started
    /\ store = EmptyStore
    /\ call = NoCall
    /\ ledger = <<>>
    /\ phase = "window"

WindowNext == Tick

WindowSpec == WindowInit /\ [][WindowNext]_vars

\* ------------------------------------------------------------ batch writer
\* #[derive(FieldCount)]: the number of fields of each record type.
field_count(kind) ==
    CASE kind = "collections" -> 4
      [] kind = "offers" -> 7
      [] kind = "orders" -> 6
      [] kind = "bids" -> 7

\* database::get_chunks: contiguous (start, end) index pairs of at most
\* floor(MaxParams / column_count) items each.
get_chunks(num_items, column_count) ==
    LET size == MaxParams \div column_count
        count == (num_items + size - 1) \div size
    IN  [i \in 1 .. count |-> <<(i - 1) * size, Min(i * size, num_items)>>]

\* database::clean_data_for_db: over-length strings are truncated, the other
\* fields are kept.
clean_data_for_db(records) ==
    [i \in DOMAIN records |-> [records[i] EXCEPT !.long = FALSE]]

\* One insert statement (a plain INSERT of the rows of `slice`) inside the
\* open transaction t. It fails, and aborts the transaction, when the
\* transaction is already aborted, a value is over-length, or a row's primary
\* key (creator_address, collection_name) is already present.
execute_with_better_error(t, kind, slice, chunk) ==
    LET keys == {slice[i].key : i \in DOMAIN slice}
        fails == \/ t.aborted
                 \/ \E i \in DOMAIN slice : slice[i].long
                 \/ Cardinality(keys) # Len(slice)
                 \/ \E row \in t.rows[kind] : row.key \in keys
    IN  [rows |-> IF fails THEN t.rows
                  ELSE [t.rows EXCEPT ![kind] = @ \cup {slice[i] : i \in DOMAIN slice}],
         aborted |-> fails,
         issued |-> [t.issued EXCEPT ![kind] = Append(@, chunk)]]

RECURSIVE insert_chunks(_, _, _, _, _)
\* The chunk loop shared by insert_collections, insert_offers, insert_orders
\* and insert_bids: the first failing statement ends it (`?`).
insert_chunks(t, kind, records, chunks, i) ==
    IF i > Len(chunks) THEN t
    ELSE LET chunk == chunks[i]
             t2 == execute_with_better_error(
                       t, kind, SubSeq(records, chunk[1] + 1, chunk[2]), chunk)
         IN  IF t2.aborted THEN t2 ELSE insert_chunks(t2, kind, records, chunks, i + 1)

insert_collections(t, collections) ==
    insert_chunks(t, "collections", collections,
                  get_chunks(Len(collections), field_count("collections")), 1)

insert_offers(t, offers) ==
    insert_chunks(t, "offers", offers,
                  get_chunks(Len(offers), field_count("offers")), 1)

\* get_chunks(orders.len(), MarketplaceOffer::field_count())
insert_orders(t, orders) ==
    insert_chunks(t, "orders", orders,
                  get_chunks(Len(orders), field_count("offers")), 1)

\* get_chunks(bids.len(), MarketplaceOffer::field_count())
insert_bids(t, bids) ==
    insert_chunks(t, "bids", bids,
                  get_chunks(Len(bids), field_count("offers")), 1)

\* Faulty variant: the end of a transaction keeps what its statements wrote before
\* one of them failed.
commit_transaction_partial(t, before, report) ==
    [store |-> t.rows, ret |-> IF t.aborted THEN report ELSE "Ok"]

\* The end of build_transaction().run(..) after the closure returned Ok(()):
\* COMMIT. A transaction in which a statement failed is rolled back as a whole;
\* `report` is what the connection then reports to run's caller.
commit_transaction(t, before, report) ==
    IF t.aborted
    THEN [store |-> before, ret |-> report]
    ELSE [store |-> t.rows, ret |-> "Ok"]

\* conn.build_transaction().read_write().run(|pg_conn| { four inserts; Ok(()) }):
\* the closure drops the result of each insert and always returns Ok(()).
run_transaction(before, collections, offers, orders, bids, report) ==
    LET t0 == [rows |-> before, aborted |-> FALSE, issued |-> [k \in Kinds |-> <<>>]]
        t1 == insert_collections(t0, collections)
        t2 == insert_offers(t1, offers)
        t3 == insert_orders(t2, orders)
        t4 == insert_bids(t3, bids)
        end == commit_transaction(t4, before, report)
    IN  [store |-> end.store, ret |-> end.ret, aborted |-> t4.aborted,
         issued |-> t4.issued]

\* insert_to_db: the first transaction, and on its Err the transaction over
\* the cleaned records. report1 and report2 are what the connection reports
\* for a transaction that ends rolled back.
insert_to_db(before, collections, offers, orders, bids, report1, report2) ==
    LET first == run_transaction(before, collections, offers, orders, bids, report1)
        retry == run_transaction(first.store,
                                 clean_data_for_db(collections),
                                 clean_data_for_db(offers),
                                 clean_data_for_db(orders),
                                 clean_data_for_db(bids), report2)
    IN  IF first.ret = "Ok"
        THEN [store |-> first.store, ret |-> "Ok", failed1 |-> first.aborted,
              retried |-> FALSE, failed2 |-> FALSE, issued |-> first.issued]
        ELSE [store |-> retry.store, ret |-> retry.ret, failed1 |-> first.aborted,
              retried |-> TRUE, failed2 |-> retry.aborted, issued |-> first.issued]

\* ------------------------------------------------- the writer under inputs
Keys == 0 .. MaxKey - 1

\* A decoded record: its table, its natural key and whether one of its string
\* fields is over-length.
DecodedRecords == [kind : Kinds, key : Keys, long : BOOLEAN]

\* The rows of `decoded` for one table, in order, stamped with timestamp ts.
RowsOf(decoded, kind, ts) ==
    LET picked == SelectSeq(decoded, LAMBDA r : r.kind = kind)
    IN  [i \in DOMAIN picked |-> [key |-> picked[i].key, ts |-> ts, long |-> picked[i].long]]

\* The row an earlier batch may have left in each table: key 0.
EarlierRow == [key |-> 0, ts |-> 0, long |-> FALSE]

\* One call of insert_to_db on a store an earlier batch has written to.
InsertToDbCall ==
    /\ phase = "writer"
    /\ call = NoCall
    /\ \E decoded \in UNION {[1 .. n -> DecodedRecords] : n \in 0 .. MaxBatch},
          report1 \in {"Ok", "Err"}, report2 \in {"Ok", "Err"} :
        LET collections == RowsOf(decoded, "collections", 1)
            offers == RowsOf(decoded, "offers", 1)
            orders == RowsOf(decoded, "orders", 1)
            bids == RowsOf(decoded, "bids", 1)
            out == insert_to_db(store, collections, offers, orders, bids, report1, report2)
        IN  /\ store' = out.store
            /\ call' = [ret |-> out.ret, before |-> store,
                        batch |-> [collections |-> collections, offers |-> offers,
                                   orders |-> orders, bids |-> bids],
                        failed1 |-> out.failed1, retried |-> out.retried,
                        failed2 |-> out.failed2, issued |-> out.issued]
    /\ UNCHANGED <<pipeVars, ledger, phase, bootVars, dec>>

WriterInit ==
    /\ PipeInit
    /\ Started
    /\ store \in {EmptyStore, [k \in Kinds |-> {EarlierRow}]}
    /\ call = NoCall
    /\ ledger = <<>>
    /\ phase = "writer"

WriterNext == InsertToDbCall

WriterSpec == WriterInit /\ [][WriterNext]_vars

\* ------------------------------------------------------- run and restart
\* Tailer::get_start_version: the persisted cursor minus the lookback, not
\* below 0; -1 (None) when there is no cursor.
get_start_version(cur, lookback_versions) ==
    IF cur < 0 THEN -1 ELSE Max(cur - lookback_versions, 0)

\* Faulty variant: the version from the db wins over config.starting_version.
start_version_db_first(starting_version, cur, lookback_versions) ==
    IF get_start_version(cur, lookback_versions) >= 0
    THEN get_start_version(cur, lookback_versions)
    ELSE IF starting_version >= 0 THEN starting_version
    ELSE 0

\* The start version of run_forever: config.starting_version (-1 for None)
\* wins, then the version from the db, then 0.
start_version(starting_version, cur, lookback_versions) ==
    IF starting_version >= 0 THEN starting_version
    ELSE IF get_start_version(cur, lookback_versions) < 0 THEN 0
    ELSE get_start_version(cur, lookback_versions)

\* The records the transactions start .. end of the ledger decode to: version
\* v yields one record of kind led[v] whose natural key is v.
LedgerRecords(led, start, end) ==
    [i \in 1 .. (end - start + 1) |->
        [kind |-> led[start + i - 1], key |-> start + i - 1, long |-> FALSE]]

LastOfBatch(start) == Min(start + BatchSize, LedgerLen) - 1

\* insert_to_db on the records of the batch that starts at `start`.
WriteBatch(before, led, start, report1, report2) ==
    LET decoded == LedgerRecords(led, start, LastOfBatch(start))
    IN  insert_to_db(before,
                     RowsOf(decoded, "collections", 0), RowsOf(decoded, "offers", 0),
                     RowsOf(decoded, "orders", 0), RowsOf(decoded, "bids", 0),
                     report1, report2)

\* One worker's process_next_batch in a run over the ledger: the batch is
\* written; Ok advances the cursor, Err is fatal to the run.
RunNextBatch ==
    /\ phase \in {"run", "rerun"}
    /\ fetcher_version < LedgerLen
    /\ \E report1 \in {"Ok", "Err"}, report2 \in {"Ok", "Err"} :
        LET out == WriteBatch(store, ledger, fetcher_version, report1, report2)
        IN  /\ store' = out.store
            /\ IF out.ret = "Ok"
               THEN /\ cursor' = Max(cursor, LastOfBatch(fetcher_version))
                    /\ fetcher_version' = LastOfBatch(fetcher_version) + 1
                    /\ phase' = phase
               ELSE /\ phase' = "failed"
                    /\ UNCHANGED <<cursor, fetcher_version>>
    /\ UNCHANGED <<wpc, wbatch, wres, channel, closed, rpc, versions_processed, base,
                   ma, now, received, emitted, completed, call, ledger, bootVars, dec>>

\* The process stops with a cursor below the end of the range and starts
\* again: the in-memory state is new, the store and the cursor are kept.
Restart ==
    /\ phase \in {"run", "failed"}
    /\ cursor >= 0
    /\ cursor < LedgerLen - 1
    /\ phase' = "rerun"
    /\ fetcher_version' = start_version(-1, cursor, Lookback)
    /\ UNCHANGED <<wpc, wbatch, wres, channel, closed, rpc, versions_processed, base,
                   ma, now, received, emitted, completed, cursor, store, call, ledger,
                   bootVars, dec>>

RestartInit ==
    /\ PipeInit
    /\ Started
    /\ store = EmptyStore
    /\ call = NoCall
    /\ ledger \in [0 .. LedgerLen - 1 -> Kinds]
    /\ phase = "run"

RestartNext == RunNextBatch \/ Restart

RestartSpec == RestartInit /\ [][RestartNext]_vars

RECURSIVE UninterruptedRun(_, _, _)
\* The store after one run over the ledger from version `start` that is never
\* stopped.
UninterruptedRun(before, led, start) ==
    IF start >= LedgerLen THEN before
    ELSE UninterruptedRun(WriteBatch(before, led, start, "Err", "Err").store, led,
                          LastOfBatch(start) + 1)

\* -------------------------------------------------------------- JSON values
\* serde_json::Value: Null, Number, String, Array and Object.
Null == [t |-> "null"]
Num(n) == [t |-> "num", n |-> n]
Str(s) == [t |-> "str", s |-> s]
Arr(a) == [t |-> "arr", a |-> a]
Obj(m) == [t |-> "obj", m |-> m]

IsObject(value) == value.t = "obj"

\* What unwrap() of a None leaves of the caller: a panic, no value.
Panic == [t |-> "panic"]

\* Faulty variant: a shallow merge, the incoming object's keys replace the
\* destination's without recursing.
merge_two_values_shallow(destination, other) ==
    IF IsObject(destination) /\ IsObject(other)
    THEN Obj([k \in DOMAIN destination.m \cup DOMAIN other.m |->
                IF k \in DOMAIN other.m THEN other.m[k] ELSE destination.m[k]])
    ELSE other

RECURSIVE merge_two_values_keep(_, _)
\* Faulty variant: a destination that is not an object is kept.
merge_two_values_keep(destination, other) ==
    IF IsObject(destination) /\ IsObject(other)
    THEN Obj([k \in DOMAIN destination.m \cup DOMAIN other.m |->
                IF k \in DOMAIN other.m
                THEN IF k \in DOMAIN destination.m
                     THEN merge_two_values_keep(destination.m[k], other.m[k])
                     ELSE other.m[k]
                ELSE destination.m[k]])
    ELSE IF IsObject(other) THEN other ELSE destination

RECURSIVE merge_two_values(_, _)
\* merge_two_values: two objects merge key by key, entry(k).or_insert(Null)
\* being the destination of key k; in every other case the destination
\* becomes `other`.
merge_two_values(destination, other) ==
    IF IsObject(destination) /\ IsObject(other)
    THEN Obj([k \in DOMAIN destination.m \cup DOMAIN other.m |->
                IF k \in DOMAIN other.m
                THEN merge_two_values(
                         IF k \in DOMAIN destination.m THEN destination.m[k] ELSE Null,
                         other.m[k])
                ELSE destination.m[k]])
    ELSE other

RECURSIVE merge_loop(_, _, _)
\* for i in 1..values.len() { merge_two_values(first_value, values[i]) }
merge_loop(first_value, values, i) ==
    IF i > Len(values) THEN first_value
    ELSE merge_loop(merge_two_values(first_value, values[i]), values, i + 1)

\* merge_values_vector: get_mut(0).unwrap() panics on an empty vector.
merge_values_vector(values) ==
    IF values = <<>> THEN Panic ELSE merge_loop(values[1], values, 2)

\* ----------------------------------------------------------------- dispatch
OfferTag ==
    "0x4bed2725cbd33afc34c556a86910456e28537ffb84df6537401c966dbaccf63b::collection::Offer"
OrderTag ==
    "0x4bed2725cbd33afc34c556a86910456e28537ffb84df6537401c966dbaccf63b::collection::Order"
\* The tag of the Bid arm as the source spells it.
BidTag ==
    "0x4bed2725cbd33afc34c556a86910456e28537ffb84df6537401c966dbaccf63b::collection:Bid"

ListItemFunction ==
    "0x4bed2725cbd33afc34c556a86910456e28537ffb84df6537401c966dbaccf63b::core::list_item"
PlaceBlindOrderFunction ==
    "0x4bed2725cbd33afc34c556a86910456e28537ffb84df6537401c966dbaccf63b::core::place_blind_order"
PlaceBiddingFunction ==
    "0x4bed2725cbd33afc34c556a86910456e28537ffb84df6537401c966dbaccf63b::core::place_bidding"

\* The structs of utils.rs: their fields in order, each with its JSON type.
OfferType == << <<"price", "num">>, <<"seller", "str">> >>
OrderType == << <<"price", "num">>, <<"quantity", "num">> >>
BidType == << <<"price", "num">>, <<"maker", "str">> >>
ListItemPayload ==
    << <<"creator", "str">>, <<"collection_name", "str">>, <<"token_name", "str">>,
       <<"property_version", "num">>, <<"price", "num">> >>
PlaceOrderPayload ==
    << <<"creator", "str">>, <<"collection_name", "str">>, <<"price", "num">>,
       <<"quantity", "num">> >>
PlaceBidPayload ==
    << <<"creator", "str">>, <<"collection_name", "str">>, <<"token_name", "str">>,
       <<"property_version", "num">>, <<"price", "num">> >>

\* serde_json::from_value into a derived struct: an object needs every field
\* with its type and may hold others; an array is read field by field and
\* needs the exact length; anything else is an error.
from_value(value, shape) ==
    LET names == {shape[i][1] : i \in DOMAIN shape}
        index(f) == CHOOSE i \in DOMAIN shape : shape[i][1] = f
    IN  IF value.t = "obj"
        THEN IF \A i \in DOMAIN shape :
                    /\ shape[i][1] \in DOMAIN value.m
                    /\ value.m[shape[i][1]].t = shape[i][2]
             THEN [tag |-> "Ok", inner |-> [f \in names |-> value.m[f]]]
             ELSE [tag |-> "Err"]
        ELSE IF value.t = "arr"
        THEN IF /\ Len(value.a) = Len(shape)
                /\ \A i \in DOMAIN shape : value.a[i].t = shape[i][2]
             THEN [tag |-> "Ok", inner |-> [f \in names |-> value.a[index(f)]]]
             ELSE [tag |-> "Err"]
        ELSE [tag |-> "Err"]

\* `arm.map(|inner| Some(Variant(inner))).context("Version {} failed! ...")`:
\* the decoded variant, or the decode error with the version in its context.
decode_arm(variant, decoded, txn_version) ==
    IF decoded.tag = "Ok"
    THEN [tag |-> "Some", variant |-> variant, inner |-> decoded.inner]
    ELSE [tag |-> "Err", version |-> txn_version]

\* MarketplaceWriteSet::from_table_item_type
from_table_item_type(data_type, data, txn_version) ==
    CASE data_type = OfferTag -> decode_arm("Offer", from_value(data, OfferType), txn_version)
      [] data_type = OrderTag -> decode_arm("Order", from_value(data, OrderType), txn_version)
      [] data_type = BidTag -> decode_arm("Bid", from_value(data, BidType), txn_version)
      [] OTHER -> [tag |-> "None"]

\* One arm of from_function_name: the argument list is merged, then decoded.
payload_arm(variant, data, shape, txn_version) ==
    IF merge_values_vector(data) = Panic THEN [tag |-> "Panic"]
    ELSE decode_arm(variant, from_value(merge_values_vector(data), shape), txn_version)

\* Faulty variant: the argument list is merged before the name is matched.
from_function_name_eager(function_name, data, txn_version) ==
    IF merge_values_vector(data) = Panic THEN [tag |-> "Panic"]
    ELSE CASE function_name = ListItemFunction ->
                payload_arm("ListItemPayload", data, ListItemPayload, txn_version)
           [] function_name = PlaceBlindOrderFunction ->
                payload_arm("PlaceOrderPayload", data, PlaceOrderPayload, txn_version)
           [] function_name = PlaceBiddingFunction ->
                payload_arm("PlaceBidPayload", data, PlaceBidPayload, txn_version)
           [] OTHER -> [tag |-> "None"]

\* MarketplacePayload::from_function_name
from_function_name(function_name, data, txn_version) ==
    CASE function_name = ListItemFunction ->
            payload_arm("ListItemPayload", data, ListItemPayload, txn_version)
      [] function_name = PlaceBlindOrderFunction ->
            payload_arm("PlaceOrderPayload", data, PlaceOrderPayload, txn_version)
      [] function_name = PlaceBiddingFunction ->
            payload_arm("PlaceBidPayload", data, PlaceBidPayload, txn_version)
      [] OTHER -> [tag |-> "None"]

\* ------------------------------------------------------------ joined records
\* WriteTableItem.data: None, or the decoded key type, key and value.
NoData == [some |-> FALSE]

\* The write-change half of from_table_item: the variant `wanted` of the
\* table item, "None" for any other outcome of the dispatch but an error.
write_half(data, wanted, txn_version) ==
    LET ws == from_table_item_type(data.key_type, data.value, txn_version)
    IN  IF ws.tag = "Some" /\ ws.variant # wanted THEN [tag |-> "None"] ELSE ws

\* The payload half of from_table_item: from_function_name(..).unwrap() and
\* the match on the variant `wanted`.
payload_half(payload, wanted, txn_version) ==
    LET pl == from_function_name(payload.function, payload.arguments, txn_version)
    IN  IF pl.tag \in {"Err", "Panic"} THEN [tag |-> "Panic"]
        ELSE IF pl.tag = "Some" /\ pl.variant # wanted THEN [tag |-> "None"]
        ELSE pl

\* Faulty variant: the price is read from the payload, the seller from its
\* creator.
MarketplaceOffer_from_table_item_payload(table_item, payload, txn_version, txn_timestamp) ==
    IF ~table_item.data.some THEN [tag |-> "Panic"]
    ELSE LET maybe_offer == write_half(table_item.data, "Offer", txn_version)
             maybe_list_item_payload == payload_half(payload, "ListItemPayload", txn_version)
         IN  IF maybe_offer.tag = "Err" THEN maybe_offer
             ELSE IF maybe_list_item_payload.tag = "Panic" THEN [tag |-> "Panic"]
             ELSE IF maybe_offer.tag = "Some" /\ maybe_list_item_payload.tag = "Some"
             THEN [tag |-> "Some",
                   rec |-> [creator_address |-> maybe_list_item_payload.inner.creator,
                            collection_name |-> maybe_list_item_payload.inner.collection_name,
                            token_name |-> maybe_list_item_payload.inner.token_name,
                            property_version |-> maybe_list_item_payload.inner.property_version,
                            price |-> maybe_list_item_payload.inner.price,
                            seller |-> maybe_list_item_payload.inner.creator,
                            timestamp |-> txn_timestamp]]
             ELSE [tag |-> "None"]

\* MarketplaceOffer::from_table_item
MarketplaceOffer_from_table_item(table_item, payload, txn_version, txn_timestamp) ==
    IF ~table_item.data.some THEN [tag |-> "Panic"]
    ELSE LET maybe_offer == write_half(table_item.data, "Offer", txn_version)
             maybe_list_item_payload == payload_half(payload, "ListItemPayload", txn_version)
         IN  IF maybe_offer.tag = "Err" THEN maybe_offer
             ELSE IF maybe_list_item_payload.tag = "Panic" THEN [tag |-> "Panic"]
             ELSE IF maybe_offer.tag = "Some" /\ maybe_list_item_payload.tag = "Some"
             THEN [tag |-> "Some",
                   rec |-> [creator_address |-> maybe_list_item_payload.inner.creator,
                            collection_name |-> maybe_list_item_payload.inner.collection_name,
                            token_name |-> maybe_list_item_payload.inner.token_name,
                            property_version |-> maybe_list_item_payload.inner.property_version,
                            price |-> maybe_offer.inner.price,
                            seller |-> maybe_offer.inner.seller,
                            timestamp |-> txn_timestamp]]
             ELSE [tag |-> "None"]

\* MarketplaceOrder::from_table_item: the maker is the table key, decoded as a
\* String with `?`.
MarketplaceOrder_from_table_item(table_item, payload, txn_version, txn_timestamp) ==
    IF ~table_item.data.some THEN [tag |-> "Panic"]
    ELSE LET maybe_order == write_half(table_item.data, "Order", txn_version)
             maybe_place_order_payload ==
                 payload_half(payload, "PlaceOrderPayload", txn_version)
         IN  IF maybe_order.tag = "Err" THEN maybe_order
             ELSE IF maybe_place_order_payload.tag = "Panic" THEN [tag |-> "Panic"]
             ELSE IF maybe_order.tag = "Some" /\ maybe_place_order_payload.tag = "Some"
             THEN IF table_item.data.key.t # "str" THEN [tag |-> "Err"]
                  ELSE [tag |-> "Some",
                        rec |-> [creator_address |-> maybe_place_order_payload.inner.creator,
                                 collection_name |->
                                     maybe_place_order_payload.inner.collection_name,
                                 price |-> maybe_order.inner.price,
                                 quantity |-> maybe_order.inner.quantity,
                                 maker |-> table_item.data.key,
                                 timestamp |-> txn_timestamp]]
             ELSE [tag |-> "None"]

\* MarketplaceBid::from_table_item
MarketplaceBid_from_table_item(table_item, payload, txn_version, txn_timestamp) ==
    IF ~table_item.data.some THEN [tag |-> "Panic"]
    ELSE LET maybe_bid == write_half(table_item.data, "Bid", txn_version)
             maybe_place_bid_payload == payload_half(payload, "PlaceBidPayload", txn_version)
         IN  IF maybe_bid.tag = "Err" THEN maybe_bid
             ELSE IF maybe_place_bid_payload.tag = "Panic" THEN [tag |-> "Panic"]
             ELSE IF maybe_bid.tag = "Some" /\ maybe_place_bid_payload.tag = "Some"
             THEN [tag |-> "Some",
                   rec |-> [creator_address |-> maybe_place_bid_payload.inner.creator,
                            collection_name |-> maybe_place_bid_payload.inner.collection_name,
                            token_name |-> maybe_place_bid_payload.inner.token_name,
                            property_version |-> maybe_place_bid_payload.inner.property_version,
                            price |-> maybe_bid.inner.price,
                            maker |-> maybe_bid.inner.maker,
                            timestamp |-> txn_timestamp]]
             ELSE [tag |-> "None"]

\* from_table_item of the record kind `kind`.
from_table_item(kind, table_item, payload, txn_version, txn_timestamp) ==
    CASE kind = "offers" ->
            MarketplaceOffer_from_table_item(table_item, payload, txn_version, txn_timestamp)
      [] kind = "orders" ->
            MarketplaceOrder_from_table_item(table_item, payload, txn_version, txn_timestamp)
      [] kind = "bids" ->
            MarketplaceBid_from_table_item(table_item, payload, txn_version, txn_timestamp)

\* ------------------------------------------- the decoders under inputs
WellFormedBidTag ==
    "0x4bed2725cbd33afc34c556a86910456e28537ffb84df6537401c966dbaccf63b::collection::Bid"

TableItemTypes == {OfferTag, OrderTag, BidTag, WellFormedBidTag, "0x1::coin::CoinStore"}

WriteValues ==
    {Obj([price |-> Num(500), seller |-> Str("0xBB")]),
     Obj([price |-> Num(450), seller |-> Str("0xBB")]),
     Obj([price |-> Num(500), quantity |-> Num(2)]),
     Obj([price |-> Num(600), maker |-> Str("0xCC")]),
     Str("junk")}

TableKeys == {Str("0xDD"), Num(1)}

TableItems ==
    {[data |-> NoData]} \cup
    {[data |-> [some |-> TRUE, key_type |-> kt, value |-> v, key |-> k]] :
        kt \in TableItemTypes, v \in WriteValues, k \in TableKeys}

FunctionNames ==
    {ListItemFunction, PlaceBlindOrderFunction, PlaceBiddingFunction, "0x1::coin::transfer"}

\* The values an argument list is made of: fragments of the named-field
\* structures, and a plain address.
ArgumentValues ==
    {Obj([creator |-> Str("0xAA"), collection_name |-> Str("C1")]),
     Obj([token_name |-> Str("T1"), property_version |-> Num(0), price |-> Num(500)]),
     Obj([price |-> Num(7), quantity |-> Num(3)]),
     Str("0xAA")}

ArgumentLists == UNION {[1 .. n -> ArgumentValues] : n \in 0 .. MaxArgs}

Payloads == [function : FunctionNames, arguments : ArgumentLists]

EventTypes == {CollectionRegistrationEventTag, "0x1::coin::DepositEvent"}
EventData == {GoodRegistration, MalformedRegistration}

Versions == {100, 101}
Timestamps == {1000, 2000}

\* The values merge_values_vector is run on: objects over the keys a and b,
\* nested one level, a number and a list.
MergeLeaves ==
    {Num(1), Num(3), Obj([x |-> Num(1)]), Obj([y |-> Num(2)])}

MergeObjects ==
    {Obj(m) : m \in {f \in UNION {[D -> MergeLeaves \cup {Num(2)}] : D \in SUBSET {"a", "b"}} :
                        /\ "a" \in DOMAIN f => f["a"] \in MergeLeaves
                        /\ "b" \in DOMAIN f => f["b"] = Num(2)}}

MergeValues == MergeObjects \cup {Num(9), Arr(<<Num(9)>>)}

MergeLists == UNION {[1 .. n -> MergeValues] : n \in 0 .. MaxMerge}

FromTableItemType ==
    /\ dec = NoDec
    /\ \E data_type \in TableItemTypes, data \in WriteValues, txn_version \in Versions :
        dec' = [op |-> "from_table_item_type", data_type |-> data_type, data |-> data,
                txn_version |-> txn_version,
                out |-> from_table_item_type(data_type, data, txn_version)]
    /\ UNCHANGED <<pipeVars, writerVars, bootVars>>

FromEvent ==
    /\ dec = NoDec
    /\ \E data_type \in EventTypes, data \in EventData, txn_version \in Versions :
        dec' = [op |-> "from_event", data_type |-> data_type, data |-> data,
                txn_version |-> txn_version,
                out |-> MarketplaceEvent_from_event(data_type, data, txn_version)]
    /\ UNCHANGED <<pipeVars, writerVars, bootVars>>

FromFunctionName ==
    /\ dec = NoDec
    /\ \E function_name \in FunctionNames, data \in ArgumentLists, txn_version \in Versions :
        dec' = [op |-> "from_function_name", function_name |-> function_name,
                data |-> data, txn_version |-> txn_version,
                out |-> from_function_name(function_name, data, txn_version)]
    /\ UNCHANGED <<pipeVars, writerVars, bootVars>>

MergeValuesVector ==
    /\ dec = NoDec
    /\ \E values \in MergeLists :
        dec' = [op |-> "merge_values_vector", values |-> values,
                out |-> merge_values_vector(values)]
    /\ UNCHANGED <<pipeVars, writerVars, bootVars>>

FromTableItem ==
    /\ dec = NoDec
    /\ \E kind \in {"offers", "orders", "bids"}, table_item \in TableItems,
          payload \in Payloads, txn_timestamp \in Timestamps :
        dec' = [op |-> "from_table_item", kind |-> kind, table_item |-> table_item,
                payload |-> payload, txn_version |-> 100, txn_timestamp |-> txn_timestamp,
                out |-> from_table_item(kind, table_item, payload, 100, txn_timestamp)]
    /\ UNCHANGED <<pipeVars, writerVars, bootVars>>

DecodeInit ==
    /\ PipeInit
    /\ Started
    /\ store = EmptyStore
    /\ call = NoCall
    /\ ledger = <<>>
    /\ phase = "decode"

DecodeNext ==
    \/ FromTableItemType
    \/ FromEvent
    \/ FromFunctionName
    \/ MergeValuesVector
    \/ FromTableItem

DecodeSpec == DecodeInit /\ [][DecodeNext]_vars

\* ------------------------------------------- process_transactions on its own
\* for event in events: the records pushed to all_collections, or a panic
\* when from_event unwraps a decode error.
collect_events(events, txn_version) ==
    LET decoded == [i \in DOMAIN events |->
                        MarketplaceCollection_from_event(events[i].typ, events[i],
                                                         txn_version)]
        pushed == SelectSeq(decoded, LAMBDA r : r.tag = "Some")
    IN  IF \E i \in DOMAIN decoded : decoded[i].tag = "Panic"
        THEN [tag |-> "Panic"]
        ELSE [tag |-> "Ok", recs |-> [i \in DOMAIN pushed |-> pushed[i].rec]]

\* for writeset in changes: each WriteTableItem is run through the three
\* from_table_item functions and each result unwrapped; the tuple of the three
\* options is the value of an expression statement and is dropped.
join_changes(changes, payload, txn_version, txn_timestamp) ==
    IF \E i \in DOMAIN changes :
          /\ changes[i].type = "WriteTableItem"
          /\ \E kind \in {"offers", "orders", "bids"} :
                from_table_item(kind, [data |-> changes[i].data],
                                [function |-> payload.function,
                                 arguments |-> payload.arguments],
                                txn_version, txn_timestamp).tag \in {"Err", "Panic"}
    THEN [tag |-> "Panic"]
    ELSE [tag |-> "Ok"]

\* The body of `for txn in &transactions` for one transaction.
process_transaction(txn, txn_version) ==
    IF txn.type # "UserTransaction" THEN [tag |-> "Ok", recs |-> <<>>]
    ELSE LET collected == collect_events(txn.events, txn_version)
         IN  IF collected.tag = "Panic" THEN collected
             ELSE IF /\ txn.payload.type = "EntryFunctionPayload"
                     /\ join_changes(txn.changes, txn.payload, txn_version,
                                     txn.timestamp).tag = "Panic"
             THEN [tag |-> "Panic"]
             ELSE collected

RECURSIVE process_transactions_loop(_, _, _)
\* The loop over the first n transactions: all_collections so far.
process_transactions_loop(transactions, batch_start, n) ==
    IF n = 0 THEN [tag |-> "Ok", recs |-> <<>>]
    ELSE LET earlier == process_transactions_loop(transactions, batch_start, n - 1)
             this == process_transaction(transactions[n], batch_start + n - 1)
         IN  IF earlier.tag = "Panic" \/ this.tag = "Panic" THEN [tag |-> "Panic"]
             ELSE [tag |-> "Ok", recs |-> earlier.recs \o this.recs]

\* MarketplaceProcessor::process_transactions. Nothing is pushed to all_offers,
\* all_orders or all_bids, insert_to_db is not called, and the body ends with
\* the loop: no ProcessingResult and no error is built.
process_transactions(transactions, batch_start, batch_end) ==
    LET looped == process_transactions_loop(transactions, batch_start,
                                            Len(transactions))
    IN  IF looped.tag = "Panic" THEN [tag |-> "Panic"]
        ELSE [tag |-> "Unit",
              all_collections |-> looped.recs,
              all_offers |-> <<>>,
              all_orders |-> <<>>,
              all_bids |-> <<>>,
              insert_to_db |-> <<>>]

\* The payloads of the transactions: two entry functions of the marketplace
\* with argument lists that decode, a foreign entry function and a script.
ListItemArguments ==
    <<Obj([creator |-> Str("0xAA"), collection_name |-> Str("C1")]),
      Obj([token_name |-> Str("T1"), property_version |-> Num(0), price |-> Num(500)])>>
PlaceOrderArguments ==
    <<Obj([creator |-> Str("0xAA"), collection_name |-> Str("C1")]),
      Obj([price |-> Num(7), quantity |-> Num(3)])>>
TransactionPayloads ==
    {[type |-> "EntryFunctionPayload", function |-> ListItemFunction,
      arguments |-> ListItemArguments],
     [type |-> "EntryFunctionPayload", function |-> PlaceBlindOrderFunction,
      arguments |-> PlaceOrderArguments],
     [type |-> "EntryFunctionPayload", function |-> "0x1::coin::transfer",
      arguments |-> <<Str("0xAA")>>],
     [type |-> "ScriptPayload", function |-> "", arguments |-> <<>>]}

\* The write-set changes: table items of an offer, of an order and of a
\* foreign table, a table item without decoded data, and a resource write.
OfferItem ==
    [some |-> TRUE, key_type |-> OfferTag,
     value |-> Obj([price |-> Num(500), seller |-> Str("0xBB")]), key |-> Str("0xDD")]
OrderItem ==
    [some |-> TRUE, key_type |-> OrderTag,
     value |-> Obj([price |-> Num(500), quantity |-> Num(2)]), key |-> Str("0xDD")]
ForeignItem ==
    [some |-> TRUE, key_type |-> "0x1::coin::CoinStore", value |-> Str("junk"),
     key |-> Str("0xDD")]
WriteSetChanges ==
    {[type |-> "WriteTableItem", data |-> d] :
        d \in {OfferItem, OrderItem, ForeignItem, NoData}}
    \cup {[type |-> "WriteResource", data |-> NoData]}
ChangeLists == UNION {[1 .. n -> WriteSetChanges] : n \in 0 .. MaxChanges}

EventLists == {<<>>} \cup {<<e>> : e \in Events}

\* User transactions, and one transaction of another kind.
UserTransactions ==
    [type : {"UserTransaction"}, events : EventLists, payload : TransactionPayloads,
     changes : ChangeLists, timestamp : {1000}]
BlockMetadataTransaction ==
    [type |-> "BlockMetadataTransaction", events |-> <<>>,
     payload |-> [type |-> "ScriptPayload", function |-> "", arguments |-> <<>>],
     changes |-> <<>>, timestamp |-> 1000]
\* The transactions batches of two are made of.
PlainTransactions ==
    {BlockMetadataTransaction} \cup
    {t \in UserTransactions : t.payload.type = "ScriptPayload" /\ t.changes = <<>>}

\* The batches process_transactions is called on.
Batches ==
    {<<t>> : t \in UserTransactions \cup {BlockMetadataTransaction}}
    \cup {<<t1, t2>> : t1 \in PlainTransactions, t2 \in PlainTransactions}

\* One call of process_transactions on a batch starting at batch_start.
ProcessTransactions ==
    /\ phase = "processor"
    /\ dec = NoDec
    /\ \E transactions \in Batches, batch_start \in Versions :
        dec' = [op |-> "process_transactions", transactions |-> transactions,
                start_version |-> batch_start,
                end_version |-> batch_start + Len(transactions) - 1,
                out |-> process_transactions(transactions, batch_start,
                                             batch_start + Len(transactions) - 1)]
    /\ UNCHANGED <<pipeVars, writerVars, bootVars>>

ProcessorInit ==
    /\ PipeInit
    /\ Started
    /\ store = EmptyStore
    /\ call = NoCall
    /\ ledger = <<>>
    /\ phase = "processor"

ProcessorNext == ProcessTransactions

ProcessorSpec == ProcessorInit /\ [][ProcessorNext]_vars

\* ------------------------------------------------- startup of run_forever
\* The NAME constants processors/mod.rs imports.
DEFAULT_PROCESSOR_NAME == "default_processor"
TOKEN_PROCESSOR_NAME == "token_processor"
COIN_PROCESSOR_NAME == "coin_processor"
MARKETPLACE_PROCESSOR_NAME == "marketplace_processor"

\* Processor::from_string. processors/mod.rs imports no STAKE_PROCESSOR_NAME,
\* so the fourth pattern of the match is an identifier pattern: it binds every
\* string the first three arms did not take, and the arms after it
\* (MARKETPLACE_PROCESSOR_NAME, and `_ => panic!`) are never reached.
Processor_from_string(input_str) ==
    CASE input_str = DEFAULT_PROCESSOR_NAME -> "DefaultProcessor"
      [] input_str = TOKEN_PROCESSOR_NAME -> "TokenProcessor"
      [] input_str = COIN_PROCESSOR_NAME -> "CoinProcessor"
      [] OTHER -> "StakeProcessor"

\* The match on processor_enum in run_forever: it has no arm for
\* Processor::StakeProcessor ("None").
instantiate_processor(variant) ==
    CASE variant = "DefaultProcessor" -> "DefaultTransactionProcessor"
      [] variant = "TokenProcessor" -> "TokenTransactionProcessor"
      [] variant = "CoinProcessor" -> "CoinTransactionProcessor"
      [] variant = "MarketplaceProcessor" -> "MarketplaceProcessor"
      [] OTHER -> "None"

\* The values of config.processor the startup is run with.
ProcessorNames ==
    {DEFAULT_PROCESSOR_NAME, TOKEN_PROCESSOR_NAME, COIN_PROCESSOR_NAME, "stake_processor",
     MARKETPLACE_PROCESSOR_NAME, "nft_processor"}

\* let processor_enum = Processor::from_string(&processor_name);
FromString ==
    /\ rpc = "from_string"
    /\ IF Processor_from_string(config.processor) = "Panic"
       THEN /\ rpc' = "panicked_startup"
            /\ UNCHANGED processor_enum
       ELSE /\ rpc' = "instantiate"
            /\ processor_enum' = Processor_from_string(config.processor)
    /\ UNCHANGED <<fetcher_version, wpc, wbatch, wres, channel, closed, versions_processed,
                   base, ma, now, received, emitted, completed, cursor, writerVars, config,
                   processor, fetcher_started, chain_id_checked, dec>>

\* let processor: Arc<dyn TransactionProcessor> = match processor_enum { .. };
\* a variant without an arm leaves the run without a processor.
InstantiateProcessor ==
    /\ rpc = "instantiate"
    /\ processor' = instantiate_processor(processor_enum)
    /\ rpc' = IF instantiate_processor(processor_enum) = "None"
              THEN "no_arm" ELSE "start_version"
    /\ UNCHANGED <<fetcher_version, wpc, wbatch, wres, channel, closed, versions_processed,
                   base, ma, now, received, emitted, completed, cursor, writerVars, config,
                   processor_enum, fetcher_started, chain_id_checked, dec>>

\* let start_version = ..; tailer.set_fetcher_version(start_version).await;
SetFetcherVersion ==
    /\ rpc = "start_version"
    /\ fetcher_version' = start_version(config.starting_version, cursor, Lookback)
    /\ rpc' = "start_fetcher"
    /\ UNCHANGED <<wpc, wbatch, wres, channel, closed, versions_processed, base, ma, now,
                   received, emitted, completed, cursor, writerVars, bootVars, dec>>

\* tailer.transaction_fetcher.lock().await.start().await;
StartFetcher ==
    /\ rpc = "start_fetcher"
    /\ fetcher_started' = TRUE
    /\ rpc' = "check_chain_id"
    /\ UNCHANGED <<fetcher_version, wpc, wbatch, wres, channel, closed, versions_processed,
                   base, ma, now, received, emitted, completed, cursor, writerVars, config,
                   processor_enum, processor, chain_id_checked, dec>>

\* if check_chain_id { tailer.check_or_update_chain_id().await.expect(..) }
CheckChainId ==
    /\ rpc = "check_chain_id"
    /\ IF config.check_chain_id
       THEN \E matches \in BOOLEAN :
                /\ chain_id_checked' = matches
                /\ rpc' = IF matches THEN "spawn" ELSE "panicked_startup"
       ELSE /\ rpc' = "spawn"
            /\ UNCHANGED chain_id_checked
    /\ UNCHANGED <<fetcher_version, wpc, wbatch, wres, channel, closed, versions_processed,
                   base, ma, now, received, emitted, completed, cursor, writerVars, config,
                   processor_enum, processor, fetcher_started, dec>>

\* The channel, and for _ in 0..processor_tasks { tokio::task::spawn(..) }.
SpawnWorkers ==
    /\ rpc = "spawn"
    /\ wpc' = [w \in Workers |-> "fetch"]
    /\ rpc' = "recv"
    /\ UNCHANGED <<fetcher_version, wbatch, wres, channel, closed, versions_processed,
                   base, ma, now, received, emitted, completed, cursor, writerVars, bootVars, dec>>

\* run_forever is entered with a config and a persisted cursor (-1: none).
StartupInit ==
    /\ config \in [processor : ProcessorNames, check_chain_id : BOOLEAN,
                   starting_version : -1 .. MaxStart, emit_every : {EmitEvery}]
    /\ cursor \in -1 .. MaxStart
    /\ rpc = "from_string"
    /\ processor_enum = "None"
    /\ processor = "None"
    /\ fetcher_started = FALSE
    /\ chain_id_checked = FALSE
    /\ fetcher_version = 0
    /\ wpc = [w \in Workers |-> "unspawned"]
    /\ wbatch = [w \in Workers |-> NoBatch]
    /\ wres = [w \in Workers |-> NoResult]
    /\ channel = <<>>
    /\ closed = FALSE
    /\ versions_processed = 0
    /\ base = 0
    /\ ma = [values |-> <<>>, sum |-> 0]
    /\ now = 0
    /\ received = <<>>
    /\ emitted = <<>>
    /\ completed = {}
    /\ store = EmptyStore
    /\ call = NoCall
    /\ ledger = <<>>
    /\ phase = "startup"
    /\ dec = NoDec

StartupNext ==
    \/ FromString
    \/ InstantiateProcessor
    \/ SetFetcherVersion
    \/ StartFetcher
    \/ CheckChainId
    \/ SpawnWorkers
    \/ \E w \in Workers : FetchBatch(w)

StartupSpec == StartupInit /\ [][StartupNext]_vars

\* ------------------------------------------------------------------ claims
ErrResultOf(batch) ==
    [num |-> batch[2] - batch[1] + 1, ok |-> FALSE, start |-> batch[1], end |-> batch[2]]

\* C1: an Err result ends the reporting loop at once: it is the last result
\* the loop receives, and neither it nor anything after it changes
\* versions_processed or the rate window.
C1_ErrIsFatal ==
    /\ [](\A i \in 1 .. Len(received) :
            ~received[i].ok => (i = Len(received) /\ rpc = "panicked"))
    /\ [][(rpc = "panicked" \/ rpc' = "panicked")
            => (versions_processed' = versions_processed /\ ma' = ma)]_vars

\* C1 witness: the loop has failed on an Err that followed a counted Ok
\* result, and a worker has tried to send after the failure.
C1_Witness ==
    /\ rpc = "panicked"
    /\ Len(received) >= 2
    /\ versions_processed > 0
    /\ \E w \in Workers : wpc[w] = "panicked_send"

\* C2: once the reporting loop has failed, no worker starts another batch.
C2_NoBatchAfterFailure ==
    [][rpc = "panicked"
         => \A w \in Workers : ~(wpc[w] = "fetch" /\ wpc'[w] = "processing")]_vars

\* C3: a worker whose batch had a decode mismatch has reported an Err result
\* carrying the batch's start_version and end_version.
C3_MismatchReported ==
    \A w \in Workers :
        wpc[w] = "panicked_decode"
            => \/ \E i \in 1 .. Len(channel) : channel[i] = ErrResultOf(wbatch[w])
               \/ \E i \in 1 .. Len(received) : received[i] = ErrResultOf(wbatch[w])

Stored(kind, i) ==
    \/ call.batch[kind][i] \in store[kind]
    \/ [call.batch[kind][i] EXCEPT !.long = FALSE] \in store[kind]

AllStored == \A kind \in Kinds : \A i \in DOMAIN call.batch[kind] : Stored(kind, i)
NoneStored == \A kind \in Kinds : \A i \in DOMAIN call.batch[kind] : ~Stored(kind, i)

\* No record of the call is over-length.
NoneOverLength == \A kind \in Kinds : \A i \in DOMAIN call.batch[kind] : ~call.batch[kind][i].long

\* No two records of the call for one table share a natural key.
KeysDistinct ==
    \A kind \in Kinds : \A i, j \in DOMAIN call.batch[kind] :
        call.batch[kind][i].key = call.batch[kind][j].key => i = j

\* Record i of table kind has a natural key the table already held.
KeyExisted(kind, i) == \E row \in call.before[kind] : row.key = call.batch[kind][i].key

\* C6: a write whose natural key already exists in its table is a
\* replace-on-conflict: the first attempt does not fail, there is no retry,
\* the record is stored and its key has exactly one row.
C6_UpsertOnExistingKey ==
    (/\ call.ret # "None"
     /\ NoneOverLength
     /\ KeysDistinct
     /\ \E kind \in Kinds : \E i \in DOMAIN call.batch[kind] : KeyExisted(kind, i))
        => /\ ~call.failed1
           /\ ~call.retried
           /\ AllStored
           /\ \A kind \in Kinds : \A i \in DOMAIN call.batch[kind] :
                Cardinality({row \in store[kind] : row.key = call.batch[kind][i].key}) = 1

\* C7: a failed insert statement of the first transaction is followed by
\* exactly one retry over the cleaned records, and a batch whose only defect
\* is an over-length field is stored by that retry.
C7_SanitizeRetry ==
    (call.ret # "None" /\ call.failed1)
        => /\ call.retried
           /\ (KeysDistinct
               /\ ~(\E kind \in Kinds : \E i \in DOMAIN call.batch[kind] : KeyExisted(kind, i)))
                 => (call.ret = "Ok" /\ AllStored)

\* C8: a statement failing in the retry makes insert_to_db return an error,
\* and insert_to_db returns Ok only when every record of the batch is stored.
C8_OkMeansStored ==
    call.ret # "None"
        => /\ (call.retried /\ call.failed2) => call.ret = "Err"
           /\ call.ret = "Ok" => AllStored

\* C9: after insert_to_db the store holds every record of the batch or none,
\* and the rows it held before are untouched.
C9_AllOrNothing ==
    call.ret # "None"
        => /\ AllStored \/ NoneStored
           /\ \A kind \in Kinds : call.before[kind] \subseteq store[kind]

\* C9 witness: the collections of the batch insert cleanly, a bid of the same
\* batch fails, and none of the batch is in the store.
C9_Witness ==
    /\ call.ret # "None"
    /\ Len(call.batch["collections"]) > 0
    /\ \A i \in DOMAIN call.batch["collections"] :
          ~call.batch["collections"][i].long /\ ~KeyExisted("collections", i)
    /\ Len(call.batch["offers"]) = 0
    /\ Len(call.batch["orders"]) = 0
    /\ \E i \in DOMAIN call.batch["bids"] : call.batch["bids"][i].long
    /\ call.failed1
    /\ NoneStored

\* The chunks cover 0 .. n contiguously, each holding at least one record.
Contiguous(chunks, n) ==
    /\ (n = 0) = (chunks = <<>>)
    /\ \A i \in DOMAIN chunks : chunks[i][1] < chunks[i][2]
    /\ chunks # <<>> => (chunks[1][1] = 0 /\ chunks[Len(chunks)][2] = n)
    /\ \A i \in 1 .. Len(chunks) - 1 : chunks[i][2] = chunks[i + 1][1]

\* C10: inserting N records into a table issues ceil(N / floor(M / C))
\* statements, C the field count of that table's record type, over contiguous
\* chunks that hold every record once.
C10_ChunkCount ==
    (call.ret # "None" /\ ~call.failed1)
        => \A kind \in Kinds :
            LET n == Len(call.batch[kind])
                size == MaxParams \div field_count(kind)
            IN  /\ Len(call.issued[kind]) = (n + size - 1) \div size
                /\ Contiguous(call.issued[kind], n)

\* -------------------------------------------------- claims on the decoders
\* The tags and function names the dispatch functions match on.
RegisteredTableItemTypes == {OfferTag, OrderTag, BidTag}
RegisteredFunctionNames == {ListItemFunction, PlaceBlindOrderFunction, PlaceBiddingFunction}

\* C11: a tag or function name outside the registry gives Ok(None) from
\* from_table_item_type, from_event and from_function_name, whatever the
\* value, the empty argument list included.
C11_UnknownIsNone ==
    /\ (dec.op = "from_table_item_type" /\ dec.data_type \notin RegisteredTableItemTypes)
          => dec.out = [tag |-> "None"]
    /\ (dec.op = "from_event" /\ dec.data_type # CollectionRegistrationEventTag)
          => dec.out = [tag |-> "None"]
    /\ (dec.op = "from_function_name" /\ dec.function_name \notin RegisteredFunctionNames)
          => dec.out = [tag |-> "None"]

\* C11 witness: from_function_name was called with an unregistered name and
\* an empty argument list and returned Ok(None).
C11_Witness ==
    /\ dec.op = "from_function_name"
    /\ dec.function_name \notin RegisteredFunctionNames
    /\ dec.data = <<>>
    /\ dec.out.tag = "None"

\* The shape registered for a tag or a function name.
ShapeOfTag(data_type) ==
    CASE data_type = OfferTag -> OfferType
      [] data_type = OrderTag -> OrderType
      [] data_type = BidTag -> BidType

ShapeOfFunction(function_name) ==
    CASE function_name = ListItemFunction -> ListItemPayload
      [] function_name = PlaceBlindOrderFunction -> PlaceOrderPayload
      [] function_name = PlaceBiddingFunction -> PlaceBidPayload

\* The argument list merges to a value that decodes into the shape.
ArgumentsDecode(data, shape) ==
    /\ data # <<>>
    /\ from_value(merge_values_vector(data), shape).tag = "Ok"

\* C12: a recognized tag or function name whose value does not decode into
\* the registered shape gives an error value that carries the version passed
\* in.
C12_MalformedIsVersionedError ==
    /\ (/\ dec.op = "from_table_item_type"
        /\ dec.data_type \in RegisteredTableItemTypes
        /\ from_value(dec.data, ShapeOfTag(dec.data_type)).tag = "Err")
          => dec.out = [tag |-> "Err", version |-> dec.txn_version]
    /\ (/\ dec.op = "from_event"
        /\ dec.data_type = CollectionRegistrationEventTag
        /\ DOMAIN dec.data # CollectionRegistrationEventFields)
          => dec.out = [tag |-> "Err", version |-> dec.txn_version]
    /\ (/\ dec.op = "from_function_name"
        /\ dec.function_name \in RegisteredFunctionNames
        /\ ~ArgumentsDecode(dec.data, ShapeOfFunction(dec.function_name)))
          => dec.out = [tag |-> "Err", version |-> dec.txn_version]

\* The values the objects of `values` hold at key k, in order.
ValuesAt(values, k) ==
    LET idx == SelectSeq([i \in 1 .. Len(values) |-> i],
                         LAMBDA i : k \in DOMAIN values[i].m)
    IN  [j \in DOMAIN idx |-> values[idx[j]].m[k]]

\* The union of the keys of the objects of `values`.
KeysOf(values) == UNION {DOMAIN values[i].m : i \in DOMAIN values}

\* The key-wise merge of objects whose values are not objects: the last
\* object holding a key gives its value.
FlatMerge(values) ==
    Obj([k \in KeysOf(values) |-> ValuesAt(values, k)[Len(ValuesAt(values, k))]])

\* C13: on a non-empty list of objects merge_values_vector gives an object
\* over the union of the keys; a key whose values are all objects holds their
\* key-wise merge (nested keys of earlier elements are kept), a key whose
\* values are all non-objects holds the last of them; [{a:1},{b:2},{a:3}]
\* gives {a:3,b:2} and [{a:{x:1}},{a:{y:2}}] gives {a:{x:1,y:2}}.
C13_MergeIsKeywiseFold ==
    (/\ dec.op = "merge_values_vector"
     /\ dec.values # <<>>
     /\ \A i \in DOMAIN dec.values : IsObject(dec.values[i]))
        => /\ IsObject(dec.out)
           /\ DOMAIN dec.out.m = KeysOf(dec.values)
           /\ \A k \in KeysOf(dec.values) :
                LET at == ValuesAt(dec.values, k)
                IN  /\ (\A j \in DOMAIN at : IsObject(at[j])) => dec.out.m[k] = FlatMerge(at)
                    /\ (\A j \in DOMAIN at : ~IsObject(at[j])) => dec.out.m[k] = at[Len(at)]
           /\ dec.values = <<Obj([a |-> Num(1)]), Obj([b |-> Num(2)]), Obj([a |-> Num(3)])>>
                => dec.out = Obj([a |-> Num(3), b |-> Num(2)])
           /\ dec.values = <<Obj([a |-> Obj([x |-> Num(1)])]), Obj([a |-> Obj([y |-> Num(2)])])>>
                => dec.out = Obj([a |-> Obj([x |-> Num(1), y |-> Num(2)])])

\* C13 witness: three objects were merged, the first and the last holding
\* different nested keys under a, and both nested keys are in the result.
C13_Witness ==
    /\ dec.op = "merge_values_vector"
    /\ Len(dec.values) = 3
    /\ dec.values[1] = Obj([a |-> Obj([x |-> Num(1)])])
    /\ dec.values[2] = Obj([b |-> Num(2)])
    /\ dec.values[3] = Obj([a |-> Obj([y |-> Num(2)])])
    /\ dec.out = Obj([a |-> Obj([x |-> Num(1), y |-> Num(2)]), b |-> Num(2)])

\* C14: in the merge an incoming value replaces the accumulator outright when
\* either of them is not an object, at the top level and under every key: the
\* result of a list is the merge of the list from its last non-object element
\* on, and a list ending in a non-object merges to that element.
C14_NonObjectReplaces ==
    dec.op = "merge_values_vector"
        => /\ \A i \in DOMAIN dec.values :
                ~IsObject(dec.values[i])
                    => dec.out = merge_values_vector(SubSeq(dec.values, i, Len(dec.values)))
           /\ (dec.values # <<>> /\ ~IsObject(dec.values[Len(dec.values)]))
                => dec.out = dec.values[Len(dec.values)]
           /\ (Len(dec.values) = 2 /\ ~IsObject(dec.values[1]))
                => dec.out = dec.values[2]
           /\ (Len(dec.values) = 2 /\ IsObject(dec.values[1]) /\ IsObject(dec.values[2]))
                => \A k \in DOMAIN dec.values[1].m \cap DOMAIN dec.values[2].m :
                      (~IsObject(dec.values[1].m[k]) \/ ~IsObject(dec.values[2].m[k]))
                          => dec.out.m[k] = dec.values[2].m[k]

\* C14 witness: [{a:1},[9]] was merged and gave [9].
C14_Witness ==
    /\ dec.op = "merge_values_vector"
    /\ dec.values = <<Obj([a |-> Num(1)]), Arr(<<Num(9)>>)>>
    /\ dec.out = Arr(<<Num(9)>>)

\* The variant and the argument struct of a record kind.
VariantOf(kind) ==
    CASE kind = "offers" -> "Offer" [] kind = "orders" -> "Order" [] kind = "bids" -> "Bid"
StructOf(kind) ==
    CASE kind = "offers" -> "ListItemPayload"
      [] kind = "orders" -> "PlaceOrderPayload"
      [] kind = "bids" -> "PlaceBidPayload"
TagOf(kind) ==
    CASE kind = "offers" -> OfferTag [] kind = "orders" -> OrderTag [] kind = "bids" -> BidTag
FunctionOf(kind) ==
    CASE kind = "offers" -> ListItemFunction
      [] kind = "orders" -> PlaceBlindOrderFunction
      [] kind = "bids" -> PlaceBiddingFunction

\* The write-change of the call decodes to the variant of its kind.
WriteHalfPresent ==
    /\ dec.table_item.data.some
    /\ LET ws == from_table_item_type(dec.table_item.data.key_type,
                                      dec.table_item.data.value, dec.txn_version)
       IN  ws.tag = "Some" /\ ws.variant = VariantOf(dec.kind)

\* The payload of the call decodes to the argument struct of its kind.
PayloadHalfPresent ==
    LET pl == from_function_name(dec.payload.function, dec.payload.arguments,
                                 dec.txn_version)
    IN  pl.tag = "Some" /\ pl.variant = StructOf(dec.kind)

\* The write-change is absent (no decoded data, or no registered tag) or is
\* of another kind.
WriteHalfAbsentOrOther ==
    \/ ~dec.table_item.data.some
    \/ dec.table_item.data.key_type # TagOf(dec.kind)

\* The payload is absent (no registered function) or is of another kind.
PayloadHalfAbsentOrOther == dec.payload.function # FunctionOf(dec.kind)

\* C15: from_table_item returns a record exactly when the write-change
\* decodes to its kind's variant and the payload to its kind's argument
\* struct, and Ok(None) when a half is absent or of another kind.
C15_RecordIffBothHalves ==
    dec.op = "from_table_item"
        => /\ (dec.out.tag = "Some") = (WriteHalfPresent /\ PayloadHalfPresent)
           /\ (WriteHalfAbsentOrOther \/ PayloadHalfAbsentOrOther)
                => dec.out = [tag |-> "None"]

\* C16: a joined MarketplaceOffer takes creator_address, collection_name,
\* token_name and property_version from the merged payload arguments, price
\* and seller from the write-change value and timestamp from the transaction;
\* the scenario at version 100 gives the record {0xAA, C1, T1, 0, 500, 0xBB,
\* timestamp}.
C16_OfferFields ==
    (dec.op = "from_table_item" /\ dec.kind = "offers")
        => /\ dec.out.tag = "Some"
                => LET args == from_value(merge_values_vector(dec.payload.arguments),
                                          ListItemPayload).inner
                       value == dec.table_item.data.value.m
                   IN  dec.out.rec = [creator_address |-> args.creator,
                                      collection_name |-> args.collection_name,
                                      token_name |-> args.token_name,
                                      property_version |-> args.property_version,
                                      price |-> value.price,
                                      seller |-> value.seller,
                                      timestamp |-> dec.txn_timestamp]
           /\ (/\ dec.txn_version = 100
               /\ dec.payload.function = ListItemFunction
               /\ dec.payload.arguments =
                    <<Obj([creator |-> Str("0xAA"), collection_name |-> Str("C1")]),
                      Obj([token_name |-> Str("T1"), property_version |-> Num(0),
                           price |-> Num(500)])>>
               /\ dec.table_item.data.some
               /\ dec.table_item.data.key_type = OfferTag
               /\ dec.table_item.data.value = Obj([price |-> Num(500), seller |-> Str("0xBB")]))
                => dec.out = [tag |-> "Some",
                              rec |-> [creator_address |-> Str("0xAA"),
                                       collection_name |-> Str("C1"),
                                       token_name |-> Str("T1"),
                                       property_version |-> Num(0),
                                       price |-> Num(500),
                                       seller |-> Str("0xBB"),
                                       timestamp |-> dec.txn_timestamp]]

\* C16 witness: the scenario was decoded, and so was an offer whose price in
\* the write-change differs from the price in the payload.
C16_Witness ==
    /\ dec.op = "from_table_item"
    /\ dec.kind = "offers"
    /\ dec.out.tag = "Some"
    /\ dec.txn_version = 100
    /\ dec.out.rec.seller = Str("0xBB")
    /\ dec.out.rec.creator_address = Str("0xAA")
    /\ dec.table_item.data.value.m.price # dec.payload.arguments[2].m.price

\* --------------------------------------------------- claims on the startup
\* The start version the configuration and the persisted cursor call for:
\* starting_version when configured, else the cursor less the lookback
\* (version 0 when the lookback reaches below it), else 0.
ResolvedStartVersion ==
    IF config.starting_version >= 0 THEN config.starting_version
    ELSE IF cursor < 0 THEN 0
    ELSE IF cursor - Lookback < 0 THEN 0
    ELSE cursor - Lookback

RegisteredProcessorNames ==
    {DEFAULT_PROCESSOR_NAME, TOKEN_PROCESSOR_NAME, COIN_PROCESSOR_NAME, "stake_processor",
     MARKETPLACE_PROCESSOR_NAME}

\* C18: for a name that is not a registered processor's, from_string panics
\* and gives no variant.
C18_UnknownNamePanics ==
    (config.processor \notin RegisteredProcessorNames /\ rpc # "from_string")
        => (rpc = "panicked_startup" /\ processor_enum = "None")

\* C19: the variant a registered name selects is selected by no other
\* registered name, and "marketplace_processor" selects
\* Processor::MarketplaceProcessor, instantiated as MarketplaceProcessor.
C19_NameSelectsItsProcessor ==
    (config.processor \in RegisteredProcessorNames /\ rpc # "from_string")
        => /\ \A other \in RegisteredProcessorNames \ {config.processor} :
                Processor_from_string(other) # processor_enum
           /\ config.processor = MARKETPLACE_PROCESSOR_NAME
                => /\ processor_enum = "MarketplaceProcessor"
                   /\ rpc # "instantiate" => processor = "MarketplaceProcessor"

\* C20: with check_chain_id enabled the chain id is verified before the
\* fetcher is started and before a worker is launched, and a mismatch ends
\* the run with no batch fetched.
C20_ChainIdCheckedFirst ==
    /\ (config.check_chain_id /\ fetcher_started) => chain_id_checked
    /\ (config.check_chain_id /\ \E w \in Workers : wpc[w] # "unspawned")
          => chain_id_checked
    /\ rpc = "panicked_startup" => \A w \in Workers : wbatch[w] = NoBatch

\* The Ok results the reporting loop has taken, in the order it took them.
OkReceived == SelectSeq(received, LAMBDA r : r.ok)

RECURSIVE SumOfCounts(_)
SumOfCounts(results) ==
    IF results = <<>> THEN 0
    ELSE results[Len(results)].num + SumOfCounts(SubSeq(results, 1, Len(results) - 1))

\* The results among the first n Ok results that changed
\* floor(versions_processed / emit_every), each with the running total it left.
RECURSIVE QuotientChanges(_)
QuotientChanges(n) ==
    IF n = 0 THEN <<>>
    ELSE LET before == SumOfCounts(SubSeq(OkReceived, 1, n - 1))
             after == before + OkReceived[n].num
             r == OkReceived[n]
         IN  IF before \div config.emit_every # after \div config.emit_every
             THEN Append(QuotientChanges(n - 1),
                         [batch_start_version |-> r.start,
                          batch_end_version |-> r.end,
                          versions_processed |-> after])
             ELSE QuotientChanges(n - 1)

\* C25: versions_processed is the sum of the counts of the Ok results; with
\* emit_every > 0, base is floor(versions_processed / emit_every) after each Ok
\* result and the progress lines are exactly one per result that changed the
\* quotient, also when a batch crosses several multiples; with emit_every = 0
\* no line is ever emitted.
C25_EmitOnQuotientChange ==
    /\ versions_processed = SumOfCounts(OkReceived)
    /\ config.emit_every > 0 =>
          /\ base = versions_processed \div config.emit_every
          /\ emitted = QuotientChanges(Len(OkReceived))
    /\ config.emit_every = 0 => emitted = <<>>

\* Batches of several versions were reported: some changed the quotient and
\* got a line, some left it alone and got none.
C25_Witness ==
    /\ config.emit_every = EmitEvery
    /\ Len(emitted) >= 1
    /\ Len(emitted) < Len(OkReceived)
    /\ \E i \in 1 .. Len(OkReceived) : OkReceived[i].num > 1

RECURSIVE SumOfValues(_)
SumOfValues(values) ==
    IF values = <<>> THEN 0 ELSE Head(values)[2] + SumOfValues(Tail(values))

\* The deque with the ticked sample pushed, before any eviction.
Pushed == Append(dec.before.values, <<dec.timestamp_millis, dec.value>>)

ExampleBefore == <<<<0, 5>>, <<5000, 5>>>>

\* C21: after tick(t, v) the deque holds exactly the pushed samples at most
\* WindowMillis older than t (age exactly WindowMillis included), in order; the
\* average returned is 0 with fewer than two samples and otherwise the sum of
\* the retained values over newest - oldest; ticking (0,5), (5000,5), (12000,5)
\* evicts the sample of t = 0 at the third tick and returns 10 / 7000.
C21_WindowRetainsUpToW ==
    dec.op = "tick" =>
        /\ ma.values = SelectSeq(Pushed,
                LAMBDA s : dec.timestamp_millis - s[1] <= WindowMillis)
        /\ Len(ma.values) < 2 => dec.out = [num |-> 0, den |-> 1]
        /\ Len(ma.values) >= 2 =>
              dec.out = [num |-> SumOfValues(ma.values),
                         den |-> ma.values[Len(ma.values)][1] - ma.values[1][1]]
        /\ (dec.before.values = ExampleBefore /\ dec.timestamp_millis = 12000
                /\ dec.value = 5) =>
              /\ ma.values = <<<<5000, 5>>, <<12000, 5>>>>
              /\ dec.out = [num |-> 10, den |-> 7000]

\* The third tick of the example has happened.
C21_Witness ==
    /\ dec.op = "tick"
    /\ dec.before.values = ExampleBefore
    /\ dec.timestamp_millis = 12000
    /\ dec.value = 5
    /\ Len(ma.values) = 2

\* C28: after any sequence of ticks with non-decreasing timestamps, sum is the
\* sum of the values held in the deque, and the sample just ticked is retained
\* as the newest one.
C28_SumMatchesDeque ==
    /\ ma.sum = SumOfValues(ma.values)
    /\ dec.op = "tick" =>
          /\ ma.values # <<>>
          /\ ma.values[Len(ma.values)] = <<dec.timestamp_millis, dec.value>>

\* A tick evicted two samples at once and retained its own.
C28_Witness ==
    /\ dec.op = "tick"
    /\ Len(dec.before.values) >= 2
    /\ Len(ma.values) = Len(dec.before.values) - 1

\* C29: with two or more samples retained the newest timestamp is strictly
\* greater than the oldest, so avg never divides by a zero elapsed time.
C29_ElapsedPositive ==
    Len(ma.values) >= 2 => ma.values[Len(ma.values)][1] > ma.values[1][1]

\* The three write-change tags written as address::module::Type, each with
\* the shape its value decodes into.
WellFormedShapeOfTag(data_type) ==
    CASE data_type = OfferTag -> OfferType
      [] data_type = OrderTag -> OrderType
      [] data_type = WellFormedBidTag -> BidType

\* C24: each of the Offer, Order and Bid tags written as address::module::Type
\* is recognized by from_table_item_type, and a place_bidding transaction with
\* a table-item write tagged <marketplace address>::collection::Bid holding a
\* well-formed {price, maker} value gives a MarketplaceBid.
C24_BidTagRecognized ==
    /\ (/\ dec.op = "from_table_item_type"
        /\ dec.data_type \in {OfferTag, OrderTag, WellFormedBidTag}
        /\ from_value(dec.data, WellFormedShapeOfTag(dec.data_type)).tag = "Ok")
          => dec.out.tag = "Some"
    /\ (/\ dec.op = "from_table_item"
        /\ dec.kind = "bids"
        /\ dec.table_item.data.some
        /\ dec.table_item.data.key_type = WellFormedBidTag
        /\ from_value(dec.table_item.data.value, BidType).tag = "Ok"
        /\ dec.payload.function = PlaceBiddingFunction
        /\ ArgumentsDecode(dec.payload.arguments, PlaceBidPayload))
          => dec.out.tag = "Some"

\* C30: from_function_name returns a value for every argument list: a
\* recognized function name with an empty argument list does not crash.
C30_EmptyArgumentsReturn ==
    dec.op = "from_function_name" => dec.out.tag \in {"Some", "None", "Err"}

\* The records process_transactions collected, by kind.
Decoded ==
    [collections |-> dec.out.all_collections, offers |-> dec.out.all_offers,
     orders |-> dec.out.all_orders, bids |-> dec.out.all_bids]

\* C22: when decoding succeeds, process_transactions passes every decoded
\* record to the batch writer and returns a ProcessingResult with the processor
\* name, start_version and end_version; it reports no success for a batch
\* whose records were not written.
C22_DecodedRecordsWritten ==
    (dec.op = "process_transactions" /\ dec.out.tag # "Panic")
        => /\ dec.out.insert_to_db = <<Decoded>>
           /\ dec.out.tag = "Ok"
           /\ dec.out.result = [name |-> MARKETPLACE_PROCESSOR_NAME,
                                start_version |-> dec.start_version,
                                end_version |-> dec.end_version]

\* The change list holds exactly one table item with the given tag, and its
\* value decodes into the shape.
OneChangeOfKind(changes, tag, shape) ==
    Cardinality({i \in DOMAIN changes :
                    /\ changes[i].type = "WriteTableItem"
                    /\ changes[i].data.some
                    /\ changes[i].data.key_type = tag
                    /\ from_value(changes[i].data.value, shape).tag = "Ok"}) = 1

\* C23: for a user transaction whose payload decodes to a kind's argument
\* struct and whose change list holds exactly one write-change of that kind,
\* process_transactions yields exactly one record of that kind, whatever the
\* position of the write-change and whatever the other write-changes.
C23_OneRecordPerMatch ==
    (/\ dec.op = "process_transactions"
     /\ dec.out.tag # "Panic"
     /\ Len(dec.transactions) = 1
     /\ dec.transactions[1].type = "UserTransaction"
     /\ dec.transactions[1].payload.type = "EntryFunctionPayload")
        => LET txn == dec.transactions[1]
           IN  /\ (/\ txn.payload.function = ListItemFunction
                   /\ ArgumentsDecode(txn.payload.arguments, ListItemPayload)
                   /\ OneChangeOfKind(txn.changes, OfferTag, OfferType))
                     => Len(dec.out.all_offers) = 1
               /\ (/\ txn.payload.function = PlaceBlindOrderFunction
                   /\ ArgumentsDecode(txn.payload.arguments, PlaceOrderPayload)
                   /\ OneChangeOfKind(txn.changes, OrderTag, OrderType))
                     => Len(dec.out.all_orders) = 1

\* The result the only worker holds and has not handed to the channel yet.
InHand == IF wpc[1] = "sending" THEN <<wres[1]>> ELSE <<>>

\* The results the worker has produced so far, in the order it produced them.
Produced ==
    [i \in 1 .. fetcher_version |-> [num |-> 1, ok |-> TRUE, start |-> i - 1, end |-> i - 1]]

AllWorkersStopped == \A w \in Workers : wpc[w] \in {"panicked_decode", "panicked_send"}

\* C27: once every worker task has stopped and nothing is left in the channel,
\* the reporting loop does not wait forever: recv yields None and the loop
\* ends with 'Failed to receive batch results: got None!'.
C27_StoppedWorkersEndLoop ==
    (AllWorkersStopped /\ rpc = "recv" /\ channel = <<>>) => recv_none


====
